---- MODULE Spec2Model ----
(***************************************************************************)
(* gitBrowser: file history across renames (git.GetFileHistory) and the    *)
(* diff fallback of the file-diff page (fileDiffHandler).                  *)
(*                                                                         *)
(* Strings are sequences of one-character strings, so that the code's      *)
(* strings.Split / TrimSpace / TrimPrefix / HasPrefix are computed on the  *)
(* characters of the tool output and not assumed.                          *)
(***************************************************************************)
EXTENDS Naturals, Sequences, FiniteSets

VARIABLES
    op,             \* entry point: "GetFileHistory" or "normalizeRepoRelativePath"
                    \* (called directly), "fileDiffHandler", or "server"
    pc,             \* position of the running operation
    repoLog,        \* the repository as `git log` sees it: failure, or the commits it lists
    showOut,        \* answers `git show <hash> -- <path>` has given, per path
    calls,          \* tool invocations so far, in order
    rev, path,      \* GetFileHistory's arguments
    lines, idx,     \* GetFileHistory: strings.Split(out, "\n") and the loop position
    entries,        \* GetFileHistory: entries appended so far / returned
    current,        \* GetFileHistory: the pending entry (<<>> is nil)
    currentPath,    \* GetFileHistory: the path cursor
    nextPath,       \* GetFileHistory: the cursor's next value ("" when unset)
    histErr,        \* GetFileHistory returned an error
    repoName, hash, \* fileDiffHandler: URL parameters
    inputPath,      \* fileDiffHandler: the requested path as normalized on entry
    normalizedPath, \* fileDiffHandler: the path reported to the template
    diff,           \* fileDiffHandler: the diff text reported to the template
    status,         \* fileDiffHandler: HTTP status written (0: none yet)
    earlier,        \* what earlier GetFileHistory calls of this run returned
    normRepo, normReq,  \* normalizeRepoRelativePath's arguments
    normRes,        \* normalizeRepoRelativePath's result
    app,            \* the application's configuration (repos, repoNames, defaultRepo)
    reqs            \* server: the locals of the requests being handled at once

vars == <<op, pc, repoLog, showOut, calls, rev, path, lines, idx, entries,
          current, currentPath, nextPath, histErr, repoName, hash, inputPath,
          normalizedPath, diff, status, earlier, normRepo, normReq, normRes,
          app, reqs>>

\* what the single-call entry points of the git package never touch
sideVars == <<earlier, normRepo, normReq, normRes, reqs>>

histVars == <<lines, idx, entries, current, currentPath, nextPath, histErr>>
reqVars == <<repoName, hash, inputPath>>

(***************************************************************************)
(* Bounds                                                                  *)
(***************************************************************************)
\* commits in the tool's log output
MaxCommits == 3
\* path elements of a requested path given to normalizeRepoRelativePath
MaxElems == 3

(***************************************************************************)
(* Go's strings package, on character sequences                            *)
(***************************************************************************)
EmptyStr == <<>>

HasPrefix(s, p) == Len(s) >= Len(p) /\ SubSeq(s, 1, Len(p)) = p

TrimPrefix(s, p) == IF HasPrefix(s, p) THEN SubSeq(s, Len(p) + 1, Len(s)) ELSE s

IsSpace(c) == c \in {" ", "\t", "\n", "\r"}

RECURSIVE TrimLeft(_)
TrimLeft(s) ==
    IF s # <<>> /\ IsSpace(Head(s)) THEN TrimLeft(Tail(s)) ELSE s

RECURSIVE TrimRight(_)
TrimRight(s) ==
    IF s # <<>> /\ IsSpace(s[Len(s)]) THEN TrimRight(SubSeq(s, 1, Len(s) - 1)) ELSE s

TrimSpace(s) == TrimRight(TrimLeft(s))

\* strings.Split(s, sep) for a one-character separator: always at least one part
RECURSIVE SplitFrom(_, _, _, _)
SplitFrom(s, sep, i, part) ==
    IF i > Len(s) THEN <<part>>
    ELSE IF s[i] = sep THEN <<part>> \o SplitFrom(s, sep, i + 1, <<>>)
    ELSE SplitFrom(s, sep, i + 1, Append(part, s[i]))

Split(s, sep) == SplitFrom(s, sep, 1, <<>>)

(***************************************************************************)
(* The external tool: what `git log` can print for the followed file        *)
(***************************************************************************)
\* the marker prefix of --pretty=format:__GB__%H|%an|%ad|%s
GBPrefix == <<"_", "_", "G", "B", "_", "_">>

PathNew == <<"d", "/", "x">>
PathOld == <<"x">>
PathOlder == <<"w">>
Paths == {PathNew, PathOld, PathOlder}

HashChars == <<"1", "2", "3", "4", "5", "6", "7", "8", "9">>
HashOf(n) == <<HashChars[n]>>

AuthorOf(h) == <<"a">> \o h
DateOf(h) == <<"d">> \o h
SubjectOf(h) == <<"s">> \o h

\* a marker line; kind "pipe" is a commit whose subject contains '|'
MarkerLine(h, kind) ==
    GBPrefix \o h \o <<"|">> \o AuthorOf(h) \o <<"|">> \o DateOf(h) \o <<"|">>
        \o (IF kind = "pipe" THEN <<"s">> \o <<"|">> \o h ELSE SubjectOf(h))

StatusLine(st, p) == st \o <<"\t">> \o p
RenameLine(old, new) == <<"R", "1", "0", "0", "\t">> \o old \o <<"\t">> \o new

\* the name-status lines one commit can carry (none, or one line)
StatusChoices ==
    { <<>>,
      <<StatusLine(<<"M">>, PathOld)>>,
      <<StatusLine(<<"A">>, PathOld)>>,
      <<RenameLine(PathOld, PathNew)>>,
      <<RenameLine(PathOlder, PathOld)>>,
      <<<<"M">>>> }

\* a commit as the tool lists it: its marker line and its name-status lines.
\* A commit whose subject contains '|' touches no path or is the rename.
Blocks ==
    [marker : {"ok"}, status : StatusChoices]
        \cup [marker : {"pipe"}, status : {<<>>, <<RenameLine(PathOld, PathNew)>>}]

Scripts == UNION { [1..n -> Blocks] : n \in 0..MaxCommits }

RECURSIVE JoinLines(_)
JoinLines(ls) ==
    IF ls = <<>> THEN <<>> ELSE Head(ls) \o <<"\n">> \o JoinLines(Tail(ls))

\* newest commit first; the k-th block of n is commit n-k+1
BlockLines(sc, k) ==
    <<MarkerLine(HashOf(Len(sc) - k + 1), sc[k].marker)>> \o sc[k].status \o <<EmptyStr>>

RECURSIVE ScriptLines(_, _)
ScriptLines(sc, k) ==
    IF k > Len(sc) THEN <<>> ELSE BlockLines(sc, k) \o ScriptLines(sc, k + 1)

Stdout(sc) == JoinLines(ScriptLines(sc, 1))

\* what the tool does for the log command: it fails, or prints the commits
LogOutcomes ==
    {[err |-> TRUE, commits |-> <<>>]}
        \cup {[err |-> FALSE, commits |-> sc] : sc \in Scripts}

LogRun(r) == [err |-> r.err, stdout |-> IF r.err THEN EmptyStr ELSE Stdout(r.commits)]

\* git.Command: an error with no output, or the trimmed standard output
Command(res) ==
    IF res.err THEN [err |-> TRUE, out |-> EmptyStr]
    ELSE [err |-> FALSE, out |-> TrimSpace(res.stdout)]


\* `git show <hash> -- <path>`: failure, no output, or a patch for that path
PatchOf(h, p) == <<"+">> \o h \o <<":">> \o p \o <<"\n">>

ShowOutcomes(h, p) ==
    { [err |-> TRUE, stdout |-> EmptyStr],
      [err |-> FALSE, stdout |-> <<"\n">>],
      [err |-> FALSE, stdout |-> PatchOf(h, p)] }

\* the tool answers the same question the same way
ShowAnswers(h, p) ==
    IF \E a \in showOut : a.hash = h /\ a.path = p
    THEN { [err |-> a.err, stdout |-> a.stdout] : a \in {b \in showOut : b.hash = h /\ b.path = p} }
    ELSE ShowOutcomes(h, p)

Asked(h, p, res) == [hash |-> h, path |-> p, err |-> res.err, stdout |-> res.stdout]

(***************************************************************************)
(* git.GetFileHistory                                                      *)
(***************************************************************************)
\* Entry with the author and date fields exchanged
Entry_SwappedFields(parts, p) ==
    [Hash |-> parts[1], Author |-> parts[3], Date |-> parts[2], Subject |-> parts[4],
     Path |-> p]

Entry(parts, p) ==
    [Hash |-> parts[1], Author |-> parts[2], Date |-> parts[3], Subject |-> parts[4],
     Path |-> p]

\* the parser's locals
Locals(es, cur, cp, np) ==
    [entries |-> es, current |-> cur, currentPath |-> cp, nextPath |-> np]

\* flush := func() { ... }
Flush(st) ==
    IF st.current = <<>> THEN st
    ELSE LET cur == st.current[1]
             done == IF cur.Path = EmptyStr
                     THEN [cur EXCEPT !.Path = st.currentPath] ELSE cur
         IN  Locals(Append(st.entries, done), <<>>,
                    IF st.nextPath # EmptyStr THEN st.nextPath ELSE st.currentPath,
                    EmptyStr)

\* MarkerStep taking the first four of four or more fields
MarkerStep_LenientFields(st, line) ==
    LET fl == Flush(st)
        parts == Split(TrimPrefix(line, GBPrefix), "|")
    IN  IF Len(parts) >= 4
        THEN [fl EXCEPT !.current = <<Entry(parts, fl.currentPath)>>]
        ELSE fl

\* a line with the __GB__ prefix: flush, then start an entry if it has 4 fields
MarkerStep(st, line) ==
    LET fl == Flush(st)
        parts == Split(TrimPrefix(line, GBPrefix), "|")
    IN  IF Len(parts) = 4
        THEN [fl EXCEPT !.current = <<Entry(parts, fl.currentPath)>>]
        ELSE fl

\* StatusStep with the rename's old name never scheduled as the next cursor
StatusStep_NoSwitch(st, line) ==
    LET parts == Split(line, "\t")
    IN  IF Len(parts) < 2 THEN st
        ELSE IF HasPrefix(parts[1], <<"R">>) /\ Len(parts) >= 3
        THEN IF parts[3] = st.currentPath
             THEN [st EXCEPT !.current = <<[st.current[1] EXCEPT !.Path = parts[3]]>>]
             ELSE st
        ELSE IF parts[2] = st.currentPath
             THEN [st EXCEPT !.current = <<[st.current[1] EXCEPT !.Path = parts[2]]>>]
             ELSE st

\* a name-status line while an entry is pending
StatusStep(st, line) ==
    LET parts == Split(line, "\t")
    IN  IF Len(parts) < 2 THEN st
        ELSE IF HasPrefix(parts[1], <<"R">>) /\ Len(parts) >= 3
        THEN IF parts[3] = st.currentPath
             THEN [st EXCEPT !.current = <<[st.current[1] EXCEPT !.Path = parts[3]]>>,
                             !.nextPath = parts[2]]
             ELSE st
        ELSE IF parts[2] = st.currentPath
             THEN [st EXCEPT !.current = <<[st.current[1] EXCEPT !.Path = parts[2]]>>]
             ELSE st

\* one iteration of `for _, line := range lines`
LineStep(st, line) ==
    IF HasPrefix(line, GBPrefix) THEN MarkerStep(st, line)
    ELSE IF st.current = <<>> \/ TrimSpace(line) = EmptyStr THEN st
    ELSE StatusStep(st, line)

\* rev == "" means HEAD
RevOrHead(r) == IF r = "" THEN "HEAD" ELSE r

HistoryReturnPc == IF op = "GetFileHistory" THEN "done" ELSE "diff_scan"

LogCall(r, p) == [cmd |-> "log", rev |-> r, hash |-> EmptyStr, path |-> p]
ShowCall(h, p) == [cmd |-> "show", rev |-> "", hash |-> h, path |-> p]
OtherCall(c) == [cmd |-> c, rev |-> "", hash |-> EmptyStr, path |-> EmptyStr]

\* HistoryOutcome with a tool failure taken for "no commits"
HistoryOutcome_ErrIsEmpty(out) ==
    IF out.out = EmptyStr THEN "empty" ELSE "parse"

\* HistoryOutcome with empty output reported as a failure
HistoryOutcome_EmptyIsError(out) ==
    IF out.err \/ out.out = EmptyStr THEN "error" ELSE "parse"

\* what GetFileHistory does with the tool's answer
HistoryOutcome(out) ==
    IF out.err THEN "error"
    ELSE IF out.out = EmptyStr THEN "empty"
    ELSE "parse"

\* InitialLocals with the entries slice kept from the call before
InitialLocals_KeepsEntries(prev, tp) == Locals(prev.entries, <<>>, tp, EmptyStr)

\* the locals as declared: entries and current nil, currentPath := path,
\* nextPath := ""; prev is what the call before left behind
InitialLocals(prev, tp) == Locals(<<>>, <<>>, tp, EmptyStr)

\* GetFileHistory up to the loop: defaults, the tool call, the early returns
HistoryEnter(r, p) ==
    LET out == Command(LogRun(repoLog))
        what == HistoryOutcome(out)
        tp == TrimPrefix(p, <<"/">>)
        prev == Locals(entries, current, currentPath, nextPath)
    IN  /\ rev' = RevOrHead(r)
        /\ path' = tp
        /\ calls' = Append(calls, LogCall(RevOrHead(r), tp))
        /\ current' = InitialLocals(prev, tp).current
        /\ entries' = InitialLocals(prev, tp).entries
        /\ nextPath' = InitialLocals(prev, tp).nextPath
        /\ currentPath' = InitialLocals(prev, tp).currentPath
        /\ idx' = 1
        /\ histErr' = (what = "error")
        /\ lines' = IF what = "parse" THEN Split(out.out, "\n") ELSE <<>>
        /\ pc' = IF what = "parse" THEN "hist_loop" ELSE HistoryReturnPc

\* the direct entry points' arguments
HistoryRevs == {"", "HEAD"}
HistoryPaths == {PathNew, <<"/">> \o PathNew, PathOld}

\* a second call is made with the revision and path of the first
SameAsEarlier(r, p) ==
    earlier # <<>> =>
        /\ RevOrHead(r) = earlier[1].rev
        /\ TrimPrefix(p, <<"/">>) = earlier[1].path

GetFileHistoryCall ==
    /\ op = "GetFileHistory"
    /\ pc = "start"
    /\ \E r \in HistoryRevs, p \in HistoryPaths :
         /\ SameAsEarlier(r, p)
         /\ HistoryEnter(r, p)
    /\ UNCHANGED <<op, app, sideVars, repoLog, showOut, reqVars, normalizedPath, diff, status>>

\* the caller keeps the result and calls GetFileHistory once more on the same
\* repository; what the first call left in its locals is still there
GetFileHistoryAgain ==
    /\ op = "GetFileHistory"
    /\ pc = "done"
    /\ earlier = <<>>
    /\ earlier' = <<[rev |-> rev, path |-> path, entries |-> entries, err |-> histErr]>>
    /\ calls' = <<>>
    /\ pc' = "start"
    /\ UNCHANGED <<op, app, normRepo, normReq, normRes, reqs, repoLog, showOut, rev, path,
                   histVars, reqVars, normalizedPath, diff, status>>

\* AfterLine with `break` in place of `continue` on a line that does not parse
AfterLine_BreakOnMalformed(ls, i) ==
    IF \/ HasPrefix(ls[i], GBPrefix) /\ Len(Split(TrimPrefix(ls[i], GBPrefix), "|")) # 4
       \/ ~HasPrefix(ls[i], GBPrefix) /\ TrimSpace(ls[i]) # EmptyStr
            /\ Len(Split(ls[i], "\t")) < 2
    THEN Len(ls) + 1
    ELSE i + 1

\* `continue`: the loop goes on with the next line
AfterLine(ls, i) == i + 1

GetFileHistoryLine ==
    /\ pc = "hist_loop"
    /\ idx <= Len(lines)
    /\ LET st == LineStep(Locals(entries, current, currentPath, nextPath), lines[idx])
       IN  /\ entries' = st.entries
           /\ current' = st.current
           /\ currentPath' = st.currentPath
           /\ nextPath' = st.nextPath
    /\ idx' = AfterLine(lines, idx)
    /\ UNCHANGED <<op, app, sideVars, pc, repoLog, showOut, calls, rev, path, lines, histErr,
                   reqVars, normalizedPath, diff, status>>

GetFileHistoryReturn ==
    /\ pc = "hist_loop"
    /\ idx > Len(lines)
    /\ LET st == Flush(Locals(entries, current, currentPath, nextPath))
       IN  /\ entries' = st.entries
           /\ current' = st.current
           /\ currentPath' = st.currentPath
           /\ nextPath' = st.nextPath
    /\ pc' = HistoryReturnPc
    /\ UNCHANGED <<op, app, sideVars, repoLog, showOut, calls, rev, path, lines, idx, histErr,
                   reqVars, normalizedPath, diff, status>>


(***************************************************************************)
(* normalizeRepoRelativePath (path/filepath on a slash-separated system)   *)
(***************************************************************************)
RECURSIVE Join(_, _)
Join(parts, sep) ==
    IF parts = <<>> THEN <<>>
    ELSE IF Len(parts) = 1 THEN parts[1]
    ELSE parts[1] \o sep \o Join(Tail(parts), sep)

\* filepath.Clean's walk over the path elements
RECURSIVE CleanElems(_, _, _)
CleanElems(elems, kept, rooted) ==
    IF elems = <<>> THEN kept
    ELSE LET e == Head(elems)
             rest == Tail(elems)
         IN  IF e = <<>> \/ e = <<".">> THEN CleanElems(rest, kept, rooted)
             ELSE IF e = <<".", ".">>
             THEN IF kept # <<>> /\ kept[Len(kept)] # <<".", ".">>
                  THEN CleanElems(rest, SubSeq(kept, 1, Len(kept) - 1), rooted)
                  ELSE IF rooted THEN CleanElems(rest, kept, rooted)
                  ELSE CleanElems(rest, Append(kept, e), rooted)
             ELSE CleanElems(rest, Append(kept, e), rooted)

\* filepath.Clean
Clean(p) ==
    LET rooted == p # <<>> /\ p[1] = "/"
        body == Join(CleanElems(Split(p, "/"), <<>>, rooted), <<"/">>)
        out == IF rooted THEN <<"/">> \o body ELSE body
    IN  IF out = <<>> THEN <<".">> ELSE out

\* normalizeRepoRelativePath without the stripping of the repository's own path
normalizeRepoRelativePath_NoRepoPrefix(repoPath, requestedPath) ==
    LET p0 == TrimPrefix(TrimSpace(requestedPath), <<"/">>)
        p2 == TrimPrefix(Clean(p0), <<".", "/">>)
    IN  IF p0 = <<>> THEN [path |-> EmptyStr, ok |-> FALSE]
        ELSE IF p2 = <<".">> \/ p2 = <<>> \/ HasPrefix(p2, <<".", ".", "/">>)
        THEN [path |-> EmptyStr, ok |-> FALSE]
        ELSE [path |-> p2, ok |-> TRUE]

normalizeRepoRelativePath(repoPath, requestedPath) ==
    LET p0 == TrimPrefix(TrimSpace(requestedPath), <<"/">>)
        rp == Clean(repoPath)
        withLeadingSlash == <<"/">> \o p0
        rpNoSlash == TrimPrefix(rp, <<"/">>)
        p1 == IF HasPrefix(withLeadingSlash, rp \o <<"/">>)
              THEN TrimPrefix(withLeadingSlash, rp \o <<"/">>)
              ELSE IF HasPrefix(p0, rpNoSlash \o <<"/">>)
              THEN TrimPrefix(p0, rpNoSlash \o <<"/">>)
              ELSE p0
        p2 == TrimPrefix(Clean(p1), <<".", "/">>)
    IN  IF p0 = <<>> THEN [path |-> EmptyStr, ok |-> FALSE]
        ELSE IF p2 = <<".">> \/ p2 = <<>> \/ HasPrefix(p2, <<".", ".", "/">>)
        THEN [path |-> EmptyStr, ok |-> FALSE]
        ELSE [path |-> p2, ok |-> TRUE]

\* the arguments of a direct call: repository paths as repos.json may give
\* them, requested paths of up to MaxElems elements
NormRepoPaths == { <<"/", "r">>, <<"/", "r", "/">>, <<"/">>, <<".">> }
NormElems == { <<>>, <<"a">>, <<"r">>, <<".">>, <<".", ".">>, <<"a", " ">> }
NormElemSeqs == UNION { [1..n -> NormElems] : n \in 0..MaxElems }
NormRequests == { lead \o Join(es, <<"/">>) : lead \in {<<>>, <<"/">>}, es \in NormElemSeqs }

NormalizeCall ==
    /\ op = "normalizeRepoRelativePath"
    /\ pc = "start"
    /\ \E rp \in NormRepoPaths, rq \in NormRequests :
         /\ normRepo' = rp
         /\ normReq' = rq
         /\ normRes' = normalizeRepoRelativePath(rp, rq)
    /\ pc' = "done"
    /\ UNCHANGED <<op, app, earlier, reqs, repoLog, showOut, calls, rev, path, histVars,
                   reqVars, normalizedPath, diff, status>>

(***************************************************************************)
(* The application and fileDiffHandler                                     *)
(***************************************************************************)
\* the configuration main() builds from repos.json before serving
StartupConfig ==
    [repos |-> [n \in {"testrepo"} |-> <<"/", "r">>],
     repoNames |-> <<"testrepo">>,
     defaultRepo |-> "testrepo"]

\* app.repos: repository name -> filesystem path
AppRepoNames == DOMAIN app.repos
AppRepoPath(name) == app.repos[name]

\* AppAfterRequest with the looked-up name entered into the map when missing
AppAfterRequest_InsertsMissing(a, rn) ==
    IF rn \in DOMAIN a.repos THEN a
    ELSE [a EXCEPT !.repos = [n \in DOMAIN a.repos \cup {rn} |->
                                 IF n = rn THEN EmptyStr ELSE a.repos[n]]]

\* repoPathFromRequest reads a.repos; the configuration it leaves behind
AppAfterRequest(a, rn) == a

RequestRepoNames == {"testrepo", "unknown"}
RequestHashes == {HashOf(1), HashOf(2)}
RequestPaths ==
    { PathNew,
      <<"/">> \o PathNew,
      <<"/", "r", "/">> \o PathNew,
      <<".", "/">> \o PathNew,
      EmptyStr,
      <<".", ".", "/">> \o PathNew }

\* git.GetCommitFileDiff
GetCommitFileDiffPath(p) == TrimPrefix(p, <<"/">>)

\* the tail of the handler: current branch, base data, template
RenderCalls == <<OtherCall("rev-parse"), OtherCall("branch")>>

\* repoPathFromRequest or normalizeRepoRelativePath refuses: 404
FileDiffNotFound ==
    /\ op = "fileDiffHandler"
    /\ pc = "start"
    /\ \E rn \in RequestRepoNames, h \in RequestHashes, rq \in RequestPaths :
         /\ \/ rn \notin AppRepoNames
            \/ rn \in AppRepoNames /\ ~normalizeRepoRelativePath(AppRepoPath(rn), rq).ok
         /\ app' = AppAfterRequest(app, rn)
         /\ repoName' = rn
         /\ hash' = IF rn \in AppRepoNames THEN h ELSE EmptyStr
    /\ status' = 404
    /\ pc' = "done"
    /\ UNCHANGED <<op, sideVars, repoLog, showOut, calls, rev, path, histVars, inputPath,
                   normalizedPath, diff>>

\* DirectOutcome with the fallback taken whatever the diff holds
DirectOutcome_AlwaysFallback(res) ==
    IF res.err THEN "error" ELSE "fallback"

\* what the handler does with the direct fetch's answer
DirectOutcome(res) ==
    IF res.err THEN "error"
    ELSE IF TrimSpace(res.out) = EmptyStr THEN "fallback"
    ELSE "render"

\* the request up to and including the direct diff fetch
FileDiffDirect ==
    /\ op = "fileDiffHandler"
    /\ pc = "start"
    /\ \E rn \in RequestRepoNames, h \in RequestHashes, rq \in RequestPaths :
         /\ rn \in AppRepoNames
         /\ normalizeRepoRelativePath(AppRepoPath(rn), rq).ok
         /\ app' = AppAfterRequest(app, rn)
         /\ LET np == normalizeRepoRelativePath(AppRepoPath(rn), rq).path
                sp == GetCommitFileDiffPath(np)
            IN  \E ans \in ShowAnswers(h, sp) :
                  LET res == Command(ans)
                      what == DirectOutcome(res)
                  IN  /\ repoName' = rn
                      /\ hash' = h
                      /\ inputPath' = np
                      /\ normalizedPath' = np
                      /\ showOut' = showOut \cup {Asked(h, sp, ans)}
                      /\ diff' = res.out
                      /\ calls' = Append(calls, ShowCall(h, sp))
                               \o (IF what = "render" THEN RenderCalls ELSE <<>>)
                      /\ status' = CASE what = "error" -> 500
                                     [] what = "render" -> 200
                                     [] OTHER -> 0
                      /\ pc' = IF what = "fallback" THEN "hist_call" ELSE "done"
    /\ UNCHANGED <<op, sideVars, repoLog, rev, path, histVars>>

\* the fallback's git.GetFileHistory(repoPath, "HEAD", normalizedPath)
FileDiffHistoryCall ==
    /\ op = "fileDiffHandler"
    /\ pc = "hist_call"
    /\ HistoryEnter("HEAD", normalizedPath)
    /\ UNCHANGED <<op, app, sideVars, repoLog, showOut, reqVars, normalizedPath, diff, status>>

\* index of the first history entry the scan stops at (0: none)
RECURSIVE ScanFrom(_, _, _, _)
ScanFrom(history, h, np, i) ==
    IF i > Len(history) THEN 0
    ELSE IF history[i].Hash = h /\ history[i].Path # np THEN i
    ELSE ScanFrom(history, h, np, i + 1)

\* ScanHistory stopping at the first entry under another path, whatever its hash
ScanHistory_IgnoresHash(history, h, np) ==
    IF \E i \in DOMAIN history : history[i].Path # np
    THEN CHOOSE i \in DOMAIN history :
            /\ history[i].Path # np
            /\ \A j \in 1..(i - 1) : history[j].Path = np
    ELSE 0

ScanHistory(history, h, np) == ScanFrom(history, h, np, 1)

\* RetryTaken with the retry's error ignored
RetryTaken_Always(res) == TRUE

\* RetryTaken with the retry's answer dropped
RetryTaken_Never(res) == FALSE

\* whether the retry's answer replaces the diff and the path
RetryTaken(res) == ~res.err

\* the scan of the history, the retry, and the rendering
FileDiffFallback ==
    /\ op = "fileDiffHandler"
    /\ pc = "diff_scan"
    /\ LET k == IF histErr THEN 0 ELSE ScanHistory(entries, hash, normalizedPath)
       IN  IF k = 0
           THEN /\ calls' = calls \o RenderCalls
                /\ UNCHANGED <<showOut, diff, normalizedPath>>
           ELSE LET sp == GetCommitFileDiffPath(entries[k].Path)
                IN  \E ans \in ShowAnswers(hash, sp) :
                      LET res == Command(ans)
                      IN  /\ showOut' = showOut \cup {Asked(hash, sp, ans)}
                          /\ calls' = Append(calls, ShowCall(hash, sp)) \o RenderCalls
                          /\ diff' = IF RetryTaken(res) THEN res.out ELSE diff
                          /\ normalizedPath' =
                               IF RetryTaken(res) THEN entries[k].Path ELSE normalizedPath
    /\ status' = 200
    /\ pc' = "done"
    /\ UNCHANGED <<op, app, sideVars, repoLog, rev, path, histVars, reqVars>>

(***************************************************************************)
(* The specification                                                       *)
(***************************************************************************)
Ops == {"GetFileHistory", "fileDiffHandler", "normalizeRepoRelativePath"}

\* a repository with no commit, for the entry points that run no `git log`
NoCommits == [err |-> FALSE, commits |-> <<>>]

Init ==
    /\ op \in Ops
    /\ pc = "start"
    /\ repoLog \in (IF op = "normalizeRepoRelativePath" THEN {NoCommits} ELSE LogOutcomes)
    /\ earlier = <<>>
    /\ normRepo = EmptyStr
    /\ normReq = EmptyStr
    /\ normRes = [path |-> EmptyStr, ok |-> FALSE]
    /\ app = StartupConfig
    /\ reqs = <<>>
    /\ showOut = {}
    /\ calls = <<>>
    /\ rev = ""
    /\ path = EmptyStr
    /\ lines = <<>>
    /\ idx = 1
    /\ entries = <<>>
    /\ current = <<>>
    /\ currentPath = EmptyStr
    /\ nextPath = EmptyStr
    /\ histErr = FALSE
    /\ repoName = ""
    /\ hash = EmptyStr
    /\ inputPath = EmptyStr
    /\ normalizedPath = EmptyStr
    /\ diff = EmptyStr
    /\ status = 0

Next ==
    \/ GetFileHistoryCall
    \/ GetFileHistoryLine
    \/ GetFileHistoryReturn
    \/ GetFileHistoryAgain
    \/ FileDiffNotFound
    \/ FileDiffDirect
    \/ FileDiffHistoryCall
    \/ FileDiffFallback
    \/ NormalizeCall

Spec == Init /\ [][Next]_vars


(***************************************************************************)
(* The server: net/http runs each request's handler in a goroutine of its  *)
(* own; the handlers share the app and the repository                      *)
(***************************************************************************)
MaxRequests == 2
ReqIds == 1..MaxRequests

seqVars == <<op, pc, calls, rev, path, histVars, reqVars, normalizedPath, diff, status,
             earlier, normRepo, normReq, normRes>>

\* a handler's locals before its request arrives
IdleRequest ==
    [pc |-> "idle", repoName |-> "", hash |-> EmptyStr, requested |-> EmptyStr,
     normalizedPath |-> EmptyStr, diff |-> EmptyStr, status |-> 0,
     entries |-> <<>>, histErr |-> FALSE, overlapped |-> FALSE]

InFlight(r) == r.pc \notin {"idle", "done"}

\* the handler of request id goes on with locals new; overlapped records
\* which requests were in flight together
Stepped(id, new) ==
    [o \in ReqIds |->
        IF o = id
        THEN [new EXCEPT !.overlapped =
                 reqs[id].overlapped \/ \E x \in ReqIds \ {id} : InFlight(reqs[x])]
        ELSE [reqs[o] EXCEPT !.overlapped = reqs[o].overlapped \/ InFlight(reqs[o])]]

\* the loop of GetFileHistory and the flush after it
RECURSIVE ParseFrom(_, _, _)
ParseFrom(st, ls, i) ==
    IF i > Len(ls) THEN Flush(st)
    ELSE ParseFrom(LineStep(st, ls[i]), ls, AfterLine(ls, i))

\* GetFileHistory from call to return, on the tool's answer out
HistoryResult(out, p) ==
    LET what == HistoryOutcome(out)
        tp == TrimPrefix(p, <<"/">>)
        fresh == InitialLocals(Locals(<<>>, <<>>, EmptyStr, EmptyStr), tp)
    IN  [err |-> what = "error",
         entries |-> IF what = "parse"
                     THEN ParseFrom(fresh, Split(out.out, "\n"), 1).entries
                     ELSE <<>>]

\* the repositories the server is run on: the tool fails; no commits; the
\* file created as OLD, changed, and then moved to NEW (its marker with four
\* fields, or with five) or changed once more
ServerLogs ==
    { [err |-> TRUE, commits |-> <<>>], [err |-> FALSE, commits |-> <<>>] }
        \cup { [err |-> FALSE,
                commits |-> << newest,
                               [marker |-> "ok", status |-> <<StatusLine(<<"M">>, PathOld)>>],
                               [marker |-> "ok", status |-> <<StatusLine(<<"A">>, PathOld)>>] >>] :
                newest \in { [marker |-> "ok", status |-> <<RenameLine(PathOld, PathNew)>>],
                             [marker |-> "pipe", status |-> <<RenameLine(PathOld, PathNew)>>],
                             [marker |-> "ok", status |-> <<StatusLine(<<"M">>, PathOld)>>] } }

\* the requests' URL parameters
ServerRequestPaths == { PathNew, <<"/">> \o PathNew, EmptyStr }

ServeNotFound(id) ==
    /\ op = "server"
    /\ reqs[id].pc = "idle"
    /\ \E rn \in RequestRepoNames, h \in RequestHashes, rq \in ServerRequestPaths :
         /\ \/ rn \notin AppRepoNames
            \/ rn \in AppRepoNames /\ ~normalizeRepoRelativePath(AppRepoPath(rn), rq).ok
         /\ app' = AppAfterRequest(app, rn)
         /\ reqs' = Stepped(id,
               [reqs[id] EXCEPT
                   !.pc = "done", !.repoName = rn, !.status = 404,
                   !.hash = IF rn \in AppRepoNames THEN h ELSE EmptyStr,
                   !.requested = IF rn \in AppRepoNames THEN rq ELSE EmptyStr])
    /\ UNCHANGED <<seqVars, repoLog, showOut>>

ServeDirect(id) ==
    /\ op = "server"
    /\ reqs[id].pc = "idle"
    /\ \E rn \in RequestRepoNames, h \in RequestHashes, rq \in ServerRequestPaths :
         /\ rn \in AppRepoNames
         /\ normalizeRepoRelativePath(AppRepoPath(rn), rq).ok
         /\ app' = AppAfterRequest(app, rn)
         /\ LET np == normalizeRepoRelativePath(AppRepoPath(rn), rq).path
                sp == GetCommitFileDiffPath(np)
            IN  \E ans \in ShowAnswers(h, sp) :
                  LET res == Command(ans)
                      what == DirectOutcome(res)
                  IN  /\ showOut' = showOut \cup {Asked(h, sp, ans)}
                      /\ reqs' = Stepped(id,
                            [reqs[id] EXCEPT
                                !.repoName = rn, !.hash = h, !.requested = rq,
                                !.normalizedPath = np,
                                !.diff = res.out,
                                !.status = CASE what = "error" -> 500
                                             [] what = "render" -> 200
                                             [] OTHER -> 0,
                                !.pc = IF what = "fallback" THEN "hist_call" ELSE "done"])
    /\ UNCHANGED <<seqVars, repoLog>>

ServeHistory(id) ==
    /\ op = "server"
    /\ reqs[id].pc = "hist_call"
    /\ LET h == HistoryResult(Command(LogRun(repoLog)), reqs[id].normalizedPath)
       IN  reqs' = Stepped(id, [reqs[id] EXCEPT !.entries = h.entries, !.histErr = h.err,
                                                !.pc = "diff_scan"])
    /\ UNCHANGED <<seqVars, app, repoLog, showOut>>

ServeFallback(id) ==
    /\ op = "server"
    /\ reqs[id].pc = "diff_scan"
    /\ LET r == reqs[id]
           k == IF r.histErr THEN 0 ELSE ScanHistory(r.entries, r.hash, r.normalizedPath)
       IN  IF k = 0
           THEN /\ reqs' = Stepped(id, [r EXCEPT !.status = 200, !.pc = "done"])
                /\ UNCHANGED showOut
           ELSE LET sp == GetCommitFileDiffPath(r.entries[k].Path)
                IN  \E ans \in ShowAnswers(r.hash, sp) :
                      LET res == Command(ans)
                      IN  /\ showOut' = showOut \cup {Asked(r.hash, sp, ans)}
                          /\ reqs' = Stepped(id,
                                [r EXCEPT
                                    !.diff = IF RetryTaken(res) THEN res.out ELSE r.diff,
                                    !.normalizedPath = IF RetryTaken(res)
                                                       THEN r.entries[k].Path
                                                       ELSE r.normalizedPath,
                                    !.status = 200,
                                    !.pc = "done"])
    /\ UNCHANGED <<seqVars, app, repoLog>>

ServerInit ==
    /\ op = "server"
    /\ pc = "start"
    /\ repoLog \in ServerLogs
    /\ earlier = <<>>
    /\ normRepo = EmptyStr
    /\ normReq = EmptyStr
    /\ normRes = [path |-> EmptyStr, ok |-> FALSE]
    /\ app = StartupConfig
    /\ reqs = [id \in ReqIds |-> IdleRequest]
    /\ showOut = {}
    /\ calls = <<>>
    /\ rev = ""
    /\ path = EmptyStr
    /\ lines = <<>>
    /\ idx = 1
    /\ entries = <<>>
    /\ current = <<>>
    /\ currentPath = EmptyStr
    /\ nextPath = EmptyStr
    /\ histErr = FALSE
    /\ repoName = ""
    /\ hash = EmptyStr
    /\ inputPath = EmptyStr
    /\ normalizedPath = EmptyStr
    /\ diff = EmptyStr
    /\ status = 0

ServerNext ==
    \E id \in ReqIds :
        \/ ServeNotFound(id)
        \/ ServeDirect(id)
        \/ ServeHistory(id)
        \/ ServeFallback(id)

ServerSpec == ServerInit /\ [][ServerNext]_vars


(***************************************************************************)
(* What the repository holds, read off the commits the tool lists          *)
(***************************************************************************)
Commits == repoLog.commits

\* the k-th listed commit (newest first) is commit number Len - k + 1
CommitNo(sc, k) == Len(sc) - k + 1
BlockOf(sc, h) == CHOOSE k \in 1..Len(sc) : HashOf(CommitNo(sc, k)) = h
Listed(sc, h) == \E k \in 1..Len(sc) : HashOf(CommitNo(sc, k)) = h

\* the name the file queried as q has at the k-th listed commit
RECURSIVE NameAt(_, _, _)
NameAt(sc, k, q) ==
    IF k = 1 THEN q
    ELSE LET later == NameAt(sc, k - 1, q)
             olds == {o \in Paths : sc[k - 1].status = <<RenameLine(o, later)>>}
         IN  IF olds # {} THEN CHOOSE o \in olds : TRUE ELSE later

MarkersParse(sc) == \A k \in 1..Len(sc) : sc[k].marker = "ok"

\* a commit one of whose lines has the wrong field count
Malformed(b) == b.marker = "pipe" \/ b.status = << <<"M">> >>

\* the marker fields of the commits whose marker has four fields, in order
RECURSIVE ExpectedMarkers(_, _)
ExpectedMarkers(sc, k) ==
    IF k > Len(sc) THEN <<>>
    ELSE LET h == HashOf(CommitNo(sc, k))
         IN  (IF sc[k].marker = "ok"
              THEN << <<h, AuthorOf(h), DateOf(h), SubjectOf(h)>> >>
              ELSE <<>>) \o ExpectedMarkers(sc, k + 1)

LogFields(e) == <<e.Hash, e.Author, e.Date, e.Subject>>

LogIdx == {i \in DOMAIN calls : calls[i].cmd = "log"}
ShowIdx == {i \in DOMAIN calls : calls[i].cmd = "show"}

\* GetFileHistory has returned (called directly, or from the handler)
HistoryReturned ==
    \/ op = "GetFileHistory" /\ pc = "done"
    \/ op = "fileDiffHandler" /\ pc \in {"diff_scan", "done"} /\ LogIdx # {}

HandlerDone == op = "fileDiffHandler" /\ pc = "done" /\ status # 404

\* the tool's answers to the direct fetch and to the retry
DirectAnswers == {a \in showOut : a.hash = hash /\ a.path = inputPath}
RetryAnswers == {a \in showOut : a.hash = hash /\ a.path # inputPath}

Empty(a) == ~a.err /\ TrimSpace(a.stdout) = EmptyStr

(***************************************************************************)
(* C1                                                                      *)
(***************************************************************************)
\* created as OLD, modified, then moved to NEW: what the tool lists for NEW
RenameScenario ==
    << [marker |-> "ok", status |-> <<RenameLine(PathOld, PathNew)>>],
       [marker |-> "ok", status |-> <<StatusLine(<<"M">>, PathOld)>>],
       [marker |-> "ok", status |-> <<StatusLine(<<"A">>, PathOld)>> ] >>

C1_Scenario ==
    /\ op = "GetFileHistory"
    /\ pc = "done"
    /\ repoLog = [err |-> FALSE, commits |-> RenameScenario]
    /\ path = PathNew

\* C1: for a file created, modified and then moved from OLD to NEW, the history
\* of NEW from HEAD has exactly three entries, move, modify, create in this
\* order; the move's entry has path NEW and the modify's entry has path OLD.
C1_RenameHistory ==
    C1_Scenario =>
        /\ ~histErr
        /\ Len(entries) = 3
        /\ entries[1].Hash = HashOf(3) /\ entries[1].Path = PathNew
        /\ entries[2].Hash = HashOf(2) /\ entries[2].Path = PathOld
        /\ entries[3].Hash = HashOf(1)

C1_Witness == C1_Scenario /\ Len(entries) = 3 /\ entries[2].Path = PathOld

(***************************************************************************)
(* C2                                                                      *)
(***************************************************************************)
\* the request names a listed commit at which the file had another name, that
\* name was the only one the commit touched, and the tool did not fail
C2_Scenario ==
    /\ HandlerDone
    /\ ~repoLog.err
    /\ MarkersParse(Commits)
    /\ Listed(Commits, hash)
    /\ NameAt(Commits, BlockOf(Commits, hash), inputPath) # inputPath
    /\ \A a \in DirectAnswers : Empty(a)
    /\ \A a \in showOut : ~a.err

\* C2: asked for commit H and the file's current path P, where the file was
\* named Q # P at H, the handler returns the diff of (H, Q) and reports Q.
C2_FallbackResolvesHistoricalPath ==
    C2_Scenario =>
        LET q == NameAt(Commits, BlockOf(Commits, hash), inputPath)
        IN  /\ normalizedPath = q
            /\ \E a \in showOut :
                 a.hash = hash /\ a.path = q /\ diff = Command(a).out

C2_Witness ==
    /\ C2_Scenario
    /\ hash = HashOf(2)
    /\ inputPath = PathNew
    /\ normalizedPath = PathOld
    /\ diff = TrimSpace(PatchOf(hash, PathOld))

(***************************************************************************)
(* C3                                                                      *)
(***************************************************************************)
\* C3: for a rename chain of any length the cursor switches exactly once per
\* rename commit whose new name is the cursor: every returned entry carries
\* the name the file had at its commit.
C3_CursorFollowsRenames ==
    (HistoryReturned /\ ~histErr) =>
        \A i \in DOMAIN entries :
            entries[i].Path = NameAt(Commits, BlockOf(Commits, entries[i].Hash), path)

\* the same, for output in which every marker line has its four fields
C3_ChainFollowedWhenMarkersParse ==
    (HistoryReturned /\ ~histErr /\ MarkersParse(Commits)) =>
        /\ Len(entries) = Len(Commits)
        /\ \A i \in DOMAIN entries :
             /\ entries[i].Hash = HashOf(CommitNo(Commits, i))
             /\ entries[i].Path = NameAt(Commits, i, path)


(***************************************************************************)
(* C4                                                                      *)
(***************************************************************************)
C4_Scenario ==
    /\ HandlerDone
    /\ \E a \in DirectAnswers : ~a.err /\ TrimSpace(a.stdout) # EmptyStr

\* C4: when the direct fetch for (H, P) gives a non-empty diff, the handler
\* returns that diff and P, and makes neither the history lookup nor a second
\* diff fetch.
C4_DirectDiffReturnedUnchanged ==
    C4_Scenario =>
        /\ \A a \in DirectAnswers : diff = Command(a).out
        /\ normalizedPath = inputPath
        /\ status = 200
        /\ LogIdx = {}
        /\ ShowIdx = {1}

C4_Witness == C4_Scenario /\ diff = TrimSpace(PatchOf(hash, PathNew)) /\ LogIdx = {}

(***************************************************************************)
(* C5                                                                      *)
(***************************************************************************)
\* C5: in the handler the direct fetch comes first; the history lookup only
\* after a direct fetch that succeeded with an empty diff; the retry fetch
\* only after a history lookup that succeeded and holds an entry for the
\* target hash; each of the three happens at most once.
C5_CallOrder ==
    op = "fileDiffHandler" =>
        /\ Cardinality(LogIdx) <= 1
        /\ Cardinality(ShowIdx) <= 2
        /\ calls # <<>> => calls[1] = ShowCall(hash, inputPath)
        /\ \A i \in LogIdx :
             /\ i = 2
             /\ calls[i] = LogCall("HEAD", inputPath)
             /\ DirectAnswers # {}
             /\ \A a \in DirectAnswers : Empty(a)
        /\ \A i \in ShowIdx \ {1} :
             /\ i = 3
             /\ LogIdx = {2}
             /\ ~histErr
             /\ \E k \in DOMAIN entries : entries[k].Hash = hash

C5_Witness ==
    /\ op = "fileDiffHandler"
    /\ pc = "done"
    /\ ShowIdx = {1, 3}
    /\ LogIdx = {2}

(***************************************************************************)
(* C6                                                                      *)
(***************************************************************************)
\* the fallback was entered and did not end in a retry that succeeded
C6_Scenario ==
    /\ HandlerDone
    /\ LogIdx # {}
    /\ ~(\E a \in RetryAnswers : ~a.err)

\* C6: when the fallback does not end in a successful retry (the history
\* lookup fails, lists no entry to retry with, or the retry fails), the
\* request succeeds with the original empty diff and the original path.
C6_FallbackFailureIsNotAnError ==
    C6_Scenario =>
        /\ status = 200
        /\ diff = EmptyStr
        /\ normalizedPath = inputPath

\* the retry was made and failed
C6_Witness ==
    /\ C6_Scenario
    /\ ShowIdx = {1, 3}
    /\ \E a \in RetryAnswers : a.err

(***************************************************************************)
(* C7                                                                      *)
(***************************************************************************)
\* C7: a tool failure in GetFileHistory, or in the handler's direct fetch, is
\* returned as an error after that one invocation: no retry, nothing returned
\* with the error, and no fallback after a failed direct fetch.
C7_ToolFailureSurfaces ==
    /\ (HistoryReturned /\ repoLog.err) =>
          /\ histErr
          /\ entries = <<>>
          /\ Cardinality(LogIdx) = 1
          /\ op = "GetFileHistory" => Len(calls) = 1
    /\ (HandlerDone /\ \E a \in DirectAnswers : a.err) =>
          /\ status = 500
          /\ diff = EmptyStr
          /\ calls = <<ShowCall(hash, inputPath)>>

C7_Witness ==
    /\ op = "GetFileHistory"
    /\ pc = "done"
    /\ repoLog.err
    /\ histErr
    /\ Len(calls) = 1

(***************************************************************************)
(* C8                                                                      *)
(***************************************************************************)
C8_Scenario == HistoryReturned /\ ~repoLog.err /\ Commits = <<>>

\* C8: when the tool lists no commit for the revision and path, GetFileHistory
\* returns an empty sequence and no error.
C8_NoCommitsIsEmptyNotError ==
    C8_Scenario => entries = <<>> /\ ~histErr

C8_Witness == C8_Scenario /\ op = "GetFileHistory" /\ Len(calls) = 1

(***************************************************************************)
(* C9                                                                      *)
(***************************************************************************)
\* C9: the returned sequence has exactly one entry per marker line with four
\* fields, in the tool's order, and each entry's hash, author, date and
\* subject are the fields of its marker.
C9_OneEntryPerMarkerInOrder ==
    (HistoryReturned /\ ~histErr) =>
        /\ Len(entries) = Len(ExpectedMarkers(Commits, 1))
        /\ \A i \in DOMAIN entries :
             LogFields(entries[i]) = ExpectedMarkers(Commits, 1)[i]

C9_Witness ==
    /\ HistoryReturned
    /\ Len(Commits) = 3
    /\ Commits[2].marker = "pipe"
    /\ Len(entries) = 2
    /\ entries[2].Hash = HashOf(1)

(***************************************************************************)
(* C10                                                                     *)
(***************************************************************************)
\* C10: a line with the wrong field count (a marker without four fields, a
\* status line without a tab) is skipped without error, and every marker with
\* four fields after it still yields its entry.
C10_MalformedLinesSkipped ==
    (HistoryReturned /\ ~repoLog.err) =>
        /\ ~histErr
        /\ \A j \in 1..Len(Commits) : \A k \in (j + 1)..Len(Commits) :
             (Malformed(Commits[j]) /\ Commits[k].marker = "ok") =>
                 \E i \in DOMAIN entries : entries[i].Hash = HashOf(CommitNo(Commits, k))

C10_Witness ==
    /\ HistoryReturned
    /\ ~histErr
    /\ Len(Commits) = 3
    /\ Commits[1].marker = "ok"
    /\ Commits[1].status = << <<"M">> >>
    /\ Commits[2].marker = "pipe"
    /\ Commits[3].marker = "ok"
    /\ Len(entries) = 2
    /\ entries[2].Hash = HashOf(1)


(***************************************************************************)
(* C14                                                                     *)
(***************************************************************************)
\* the name the parser has as its cursor at the k-th listed commit when the
\* rename lines of commits whose marker lacks its four fields are discarded
RECURSIVE SeenNameAt(_, _, _)
SeenNameAt(sc, k, q) ==
    IF k = 1 THEN q
    ELSE LET later == SeenNameAt(sc, k - 1, q)
             olds == {o \in Paths : sc[k - 1].status = <<RenameLine(o, later)>>}
         IN  IF sc[k - 1].marker = "ok" /\ olds # {}
             THEN CHOOSE o \in olds : TRUE ELSE later

\* C14: a marker line whose field count is not 4 yields no entry and the
\* status lines up to the next marker are discarded, a rename line to the
\* cursor's name included; the cursor is not switched, so the older entries
\* (up to the next rename that is read) are recorded under the newer name.
C14_MalformedMarkerDropsRename ==
    (HistoryReturned /\ ~histErr) =>
        /\ \A k \in 1..Len(Commits) :
             Commits[k].marker = "pipe" =>
                 ~\E i \in DOMAIN entries : entries[i].Hash = HashOf(CommitNo(Commits, k))
        /\ \A i \in DOMAIN entries :
             entries[i].Path = SeenNameAt(Commits, BlockOf(Commits, entries[i].Hash), path)

\* the move's subject contains '|': the older commits stay under the new name
C14_Witness ==
    /\ HistoryReturned
    /\ ~histErr
    /\ path = PathNew
    /\ Len(Commits) = 3
    /\ Commits[1] = [marker |-> "pipe", status |-> <<RenameLine(PathOld, PathNew)>>]
    /\ Commits[2] = [marker |-> "ok", status |-> <<StatusLine(<<"M">>, PathOld)>>]
    /\ Commits[3] = [marker |-> "ok", status |-> <<StatusLine(<<"A">>, PathOld)>>]
    /\ Len(entries) = 2
    /\ entries[1].Path = PathNew
    /\ entries[2].Path = PathNew


(***************************************************************************)
(* C13                                                                     *)
(***************************************************************************)
NormDone == op = "normalizeRepoRelativePath" /\ pc = "done"

IsAbsolute(p) == p # <<>> /\ p[1] = "/"
IsClean(p) == Clean(p) = p
CleanRelative(p) == p # <<>> /\ ~IsAbsolute(p) /\ IsClean(p)

\* the paths p for which rq is rp, '/', and p: as it stands, or without the
\* leading '/' (rp is absolute, so the leading '/' is rp's)
NamedBelow(rp, rq) ==
    { TrimPrefix(x, rp \o <<"/">>) :
        x \in { y \in {rq, <<"/">> \o rq} : HasPrefix(y, rp \o <<"/">>) } }

\* p lies in the repository and survives strings.TrimSpace
InsideRepo(p) ==
    /\ p # <<".">>
    /\ Split(p, "/")[1] # <<".", ".">>
    /\ TrimSpace(p) = p

\* C13 as stated: for the repository's absolute path followed by '/' and a
\* clean relative path p, with or without the leading '/', the result is
\* (p, true).
C13_AbsolutePathWithinRepo ==
    (NormDone /\ IsAbsolute(normRepo)) =>
        \A p \in NamedBelow(normRepo, normReq) :
            CleanRelative(p) => normRes = [path |-> p, ok |-> TRUE]

\* C13 as amended: the same for a clean repository path and a p that is not
\* ".", does not start with a ".." element and has no white space at its ends.
C13_AbsolutePathInsideCleanRepo ==
    (NormDone /\ IsAbsolute(normRepo) /\ IsClean(normRepo)) =>
        \A p \in NamedBelow(normRepo, normReq) :
            (CleanRelative(p) /\ InsideRepo(p)) => normRes = [path |-> p, ok |-> TRUE]

C13_Witness ==
    /\ NormDone
    /\ normRepo = <<"/", "r">>
    /\ normReq = <<"/", "r", "/", "a", "/", "r">>
    /\ normRes = [path |-> <<"a", "/", "r">>, ok |-> TRUE]

(***************************************************************************)
(* C15                                                                     *)
(***************************************************************************)
\* the path the request names below the repository's name space, cleaned
CleanedRequest(rq) == Clean(TrimPrefix(TrimSpace(rq), <<"/">>))

\* C15: a path returned with ok = true is not empty, is not ".", and does not
\* start with a ".." element; a request that cleans to a place above the
\* repository root is refused.
C15_ResultStaysInsideRepo ==
    NormDone =>
        /\ normRes.ok =>
             /\ normRes.path # EmptyStr
             /\ normRes.path # <<".">>
             /\ Split(normRes.path, "/")[1] # <<".", ".">>
        /\ Split(CleanedRequest(normReq), "/")[1] = <<".", ".">> => ~normRes.ok

(***************************************************************************)
(* C12                                                                     *)
(***************************************************************************)
SecondCallReturned ==
    /\ op = "GetFileHistory"
    /\ pc = "done"
    /\ earlier # <<>>

SameArguments == rev = earlier[1].rev /\ path = earlier[1].path

\* C12: a second call of GetFileHistory with the same revision and path on
\* the unchanged repository returns what the first call returned, whatever
\* the first call left behind.
C12_SecondCallReturnsTheSame ==
    (SecondCallReturned /\ SameArguments) =>
        /\ entries = earlier[1].entries
        /\ histErr = earlier[1].err

\* both calls return the move, the change and the creation
C12_Witness ==
    /\ SecondCallReturned
    /\ SameArguments
    /\ Len(earlier[1].entries) = 3
    /\ Len(entries) = 3
    /\ entries[1].Path = PathNew
    /\ entries[3].Path = PathOld

(***************************************************************************)
(* C11                                                                     *)
(***************************************************************************)
\* the tool's answer to `show` for hash h and path p
AnswerFor(h, p) == CHOOSE a \in showOut : a.hash = h /\ a.path = p

Response(st, d, p) ==
    IF st = 200 THEN [status |-> st, diff |-> d, path |-> p]
    ELSE [status |-> st, diff |-> EmptyStr, path |-> EmptyStr]

\* what the handler answers to the request (rn, h, rq) when it is the only
\* request, for the configuration of startup and the repository's answers
Alone(rn, h, rq) ==
    IF rn \notin DOMAIN StartupConfig.repos THEN Response(404, EmptyStr, EmptyStr)
    ELSE LET norm == normalizeRepoRelativePath(StartupConfig.repos[rn], rq)
         IN  IF ~norm.ok THEN Response(404, EmptyStr, EmptyStr)
             ELSE LET direct == Command(AnswerFor(h, GetCommitFileDiffPath(norm.path)))
                      hist == HistoryResult(Command(LogRun(repoLog)), norm.path)
                      k == IF hist.err THEN 0 ELSE ScanHistory(hist.entries, h, norm.path)
                  IN  IF direct.err THEN Response(500, EmptyStr, EmptyStr)
                      ELSE IF TrimSpace(direct.out) # EmptyStr \/ k = 0
                      THEN Response(200, direct.out, norm.path)
                      ELSE LET retry == Command(AnswerFor(h,
                                            GetCommitFileDiffPath(hist.entries[k].Path)))
                           IN  IF retry.err THEN Response(200, direct.out, norm.path)
                               ELSE Response(200, retry.out, hist.entries[k].Path)

\* C11: under every interleaving of the requests' handlers the configuration
\* stays what startup made it, and every finished request has the answer it
\* would have had alone on the same repository.
C11_RequestsAreIndependent ==
    op = "server" =>
        /\ app = StartupConfig
        /\ \A id \in ReqIds :
             reqs[id].pc = "done" =>
                 Response(reqs[id].status, reqs[id].diff, reqs[id].normalizedPath)
                     = Alone(reqs[id].repoName, reqs[id].hash, reqs[id].requested)

\* two requests in flight together: one for a repository that is not
\* configured, one answered from the historical path
C11_Witness ==
    /\ op = "server"
    /\ reqs[1].pc = "done"
    /\ reqs[2].pc = "done"
    /\ reqs[1].overlapped
    /\ reqs[2].overlapped
    /\ reqs[1].status = 200
    /\ reqs[1].requested = PathNew
    /\ reqs[1].normalizedPath = PathOld
    /\ reqs[1].diff # EmptyStr
    /\ reqs[2].status = 404
    /\ reqs[2].repoName = "unknown"

====
